---------------------------- MODULE Spec2Model ----------------------------
(***************************************************************************)
(* UnixPi security framework: the network analyzer                         *)
(* (unixpi/security/network_analyzer.py) and the system monitor            *)
(* (unixpi/security/system_monitor.py) as state machines.                  *)
(*                                                                         *)
(* Conventions                                                             *)
(*  - a Python dict is a function plus, where the code iterates it, the    *)
(*    sequence of its keys in insertion order;                             *)
(*  - a Python list that a capture can fill with many equal packets is     *)
(*    kept run-length encoded (an entry carries a repeat count n);         *)
(*  - an exception is an explicit outcome value, and the statements after  *)
(*    the raising one are not executed;                                    *)
(*  - "None" is the Python None.                                           *)
(***************************************************************************)
EXTENDS Integers, Sequences, FiniteSets, TLC

VARIABLES
    \* ---- wall clock (datetime.now()), in seconds
    now,
    \* ---- NetworkAnalyzer instance
    packets,        \* self.packets, run-length encoded
    connections,    \* self.connections: key -> stats
    conn_order,     \* insertion order of the keys of self.connections
    protocols,      \* self.protocols
    net_outcome,    \* how the last NetworkAnalyzer call ended
    net_report,     \* value returned by the last generate_report()
    observed,       \* history: every record handed to _process_packet
    dirty,          \* history: _process_packet ran since the last report
    \* ---- threads that run _process_packet on one analyzer
    producers,      \* per thread: position, packet and local values
    heap,           \* the stats dicts ever created, by identity
    refs,           \* self.connections: key -> identity of its stats dict
    \* ---- SystemMonitor instance and the monitor() call in progress
    baseline,       \* self.baseline
    pc,             \* position of the monitor() call
    results,        \* the results dict of the call
    iteration,      \* rounds of the sampling loop completed
    samples_count,  \* samples_count
    evaluated,      \* history: the samples handed to _check_anomalies
    sessions,       \* history: number of monitor() calls so far
    mon_outcome,    \* how the last SystemMonitor call ended
    mon_report,     \* the report dict of the last generate_report()
    requests        \* history: the psutil calls of the monitor() call in
                    \* progress and how each ended

conc_vars == <<producers, heap, refs>>

net_vars == <<packets, connections, conn_order, protocols, net_outcome,
              net_report, observed, dirty, conc_vars>>

mon_vars == <<baseline, pc, results, iteration, samples_count, evaluated,
              sessions, mon_outcome, mon_report, requests>>

vars == <<now, net_vars, mon_vars>>

None == "None"

-----------------------------------------------------------------------------
(* Bounds *)

MaxCalls == 2       \* number of _process_packet / start_capture calls
MaxBursts == 1      \* number of captures that deliver more than one packet
MaxTime == 10       \* last clock reading
MaxSessions == 2    \* number of monitor() calls on one instance
MaxSamples == 2     \* samples_count of a session
MaxFindings == 2    \* findings per list handed to generate_report
MaxProducers == 2   \* threads that call _process_packet at the same time

-----------------------------------------------------------------------------
(* Packets                                                                 *)

\* IPv4 addresses as character sequences; none contains ":".
AddrA == <<"1", ".", "1">>
AddrB == <<"1", ".", "2">>
NoAddr == <<>>

Pkt(l4, ip, src, dst, len, dport, http) ==
    [kind |-> "Packet", l4 |-> l4, ip |-> ip, src |-> src, dst |-> dst,
     len |-> len, dport |-> dport, http |-> http]

\* The None that tests hand to _process_packet.
NonePacket ==
    [kind |-> None, l4 |-> "OTHER", ip |-> FALSE, src |-> NoAddr,
     dst |-> NoAddr, len |-> 0, dport |-> 0, http |-> "none"]

\* http: "none"       no HTTP layer
\*       "response"   an HTTP layer that is not an HTTPRequest
\*       "request"    an HTTPRequest whose Method and Path are UTF-8
\*       "badrequest" an HTTPRequest whose Path holds bytes that are not UTF-8
Packets ==
    { NonePacket,
      Pkt("TCP",   TRUE,  AddrA, AddrB, 60, 80,   "none"),
      Pkt("TCP",   TRUE,  AddrA, AddrB, 40, 443,  "none"),
      Pkt("TCP",   TRUE,  AddrB, AddrA, 50, 21,   "none"),
      Pkt("TCP",   TRUE,  AddrB, AddrA, 50, 22,   "none"),
      Pkt("TCP",   TRUE,  AddrA, AddrB, 70, 8080, "request"),
      Pkt("TCP",   TRUE,  AddrA, AddrB, 70, 8080, "response"),
      Pkt("TCP",   TRUE,  AddrA, AddrB, 70, 80,   "badrequest"),
      Pkt("TCP",   FALSE, NoAddr, NoAddr, 80, 80, "none"),
      Pkt("UDP",   TRUE,  AddrA, AddrB, 30, 53,   "none"),
      Pkt("UDP",   TRUE,  AddrB, AddrA, 30, 67,   "none"),
      Pkt("ICMP",  TRUE,  AddrA, AddrA, 20, 0,    "none"),
      Pkt("OTHER", TRUE,  AddrB, AddrB, 20, 0,    "none") }

-----------------------------------------------------------------------------
(* NetworkAnalyzer._analyze_tcp / _analyze_udp                             *)

\* Result of a block of statements: the protocol set it leaves behind and
\* whether it raised.
Res(protos, raised) == [protocols |-> protos, raised |-> raised]

ServiceOfTcpPort(dport) ==
    IF dport = 80 THEN {"HTTP"}
    ELSE IF dport = 443 THEN {"HTTPS"}
    ELSE IF dport = 22 THEN {"SSH"}
    ELSE IF dport = 21 THEN {"FTP"}
    ELSE {}

ServiceOfUdpPort(dport) ==
    IF dport = 53 THEN {"DNS"}
    ELSE IF dport = 67 \/ dport = 68 THEN {"DHCP"}
    ELSE {}

\* bytes.decode() of the request line raises UnicodeDecodeError on bytes
\* that are not UTF-8.
DecodeRaises(p) == p.http = "badrequest"

_analyze_tcp(protos, p) ==
    LET p1 == IF p.http # "none" THEN protos \cup {"HTTP"} ELSE protos
    IN  IF p.http \in {"request", "badrequest"} /\ DecodeRaises(p)
        THEN Res(p1, TRUE)
        ELSE Res(p1 \cup ServiceOfTcpPort(p.dport), FALSE)

_analyze_udp(protos, p) ==
    Res(protos \cup ServiceOfUdpPort(p.dport), FALSE)

-----------------------------------------------------------------------------
(* NetworkAnalyzer._process_packet                                         *)

conn_key(p) == p.src \o <<":">> \o p.dst

\* Variant: a new aggregate that already counts one packet.
NewStats_counted(t) ==
    [packets |-> 1, bytes |-> 0, start_time |-> t, protocols |-> {}]

NewStats(t) ==
    [packets |-> 0, bytes |-> 0, start_time |-> t, protocols |-> {}]

\* The analyzer fields _process_packet touches.
NetState(protos, conns, order, outcome) ==
    [protocols |-> protos, connections |-> conns, conn_order |-> order,
     outcome |-> outcome]

\* Variant: the aggregate of the key is created anew at every packet.
TrackConnection_reset(s, p, t) ==
    IF ~p.ip THEN s
    ELSE
    LET k      == conn_key(p)
        isNew  == k \notin DOMAIN s.connections
        c1     == [NewStats(t) EXCEPT !.packets = @ + 1, !.bytes = @ + p.len]
        c2     == IF p.l4 = "TCP" THEN [c1 EXCEPT !.protocols = @ \cup {"TCP"}]
                  ELSE IF p.l4 = "UDP"
                       THEN [c1 EXCEPT !.protocols = @ \cup {"UDP"}]
                       ELSE c1
        conns  == [x \in DOMAIN s.connections \cup {k} |->
                      IF x = k THEN c2 ELSE s.connections[x]]
    IN  [s EXCEPT !.connections = conns,
                  !.conn_order = IF isNew THEN Append(@, k) ELSE @]

\* "Track connections": lines 90-106.
TrackConnection(s, p, t) ==
    IF ~p.ip THEN s
    ELSE
    LET k      == conn_key(p)
        isNew  == k \notin DOMAIN s.connections
        c0     == IF isNew THEN NewStats(t) ELSE s.connections[k]
        c1     == [c0 EXCEPT !.packets = @ + 1, !.bytes = @ + p.len]
        c2     == IF p.l4 = "TCP" THEN [c1 EXCEPT !.protocols = @ \cup {"TCP"}]
                  ELSE IF p.l4 = "UDP"
                       THEN [c1 EXCEPT !.protocols = @ \cup {"UDP"}]
                       ELSE c1
        conns  == [x \in DOMAIN s.connections \cup {k} |->
                      IF x = k THEN c2 ELSE s.connections[x]]
    IN  [s EXCEPT !.connections = conns,
                  !.conn_order = IF isNew THEN Append(@, k) ELSE @]

\* "Extract protocol information": lines 80-87.
ExtractProtocol(protos, p) ==
    IF p.l4 = "TCP" THEN _analyze_tcp(protos \cup {"TCP"}, p)
    ELSE IF p.l4 = "UDP" THEN _analyze_udp(protos \cup {"UDP"}, p)
    ELSE IF p.l4 = "ICMP" THEN Res(protos \cup {"ICMP"}, FALSE)
    ELSE Res(protos, FALSE)

\* The except clause logs and swallows every Exception.
Handler(outcome) == IF outcome = "exception" THEN "logged" ELSE outcome

\* One call at clock reading t, from analyzer fields s.
_process_packet(s, p, t) ==
    IF p.kind = None
    THEN \* packet.haslayer raises AttributeError before anything is written
         [s EXCEPT !.outcome = Handler("exception")]
    ELSE LET r == ExtractProtocol(s.protocols, p)
             s1 == [s EXCEPT !.protocols = r.protocols]
         IN  IF r.raised
             THEN [s1 EXCEPT !.outcome = Handler("exception")]
             ELSE [TrackConnection(s1, p, t) EXCEPT !.outcome = Handler("ok")]

\* sniff() calling prn = _process_packet for n equal packets in a row.
\* The run is split in halves; the test on the first half only makes it a
\* value before the second half starts.
RECURSIVE Deliver(_, _, _, _)
Deliver(s, p, t, n) ==
    IF n = 0 THEN s
    ELSE IF n = 1 THEN _process_packet(s, p, t)
    ELSE LET h == n \div 2
             half == Deliver(s, p, t, h)
         IN  IF half \in {half} THEN Deliver(half, p, t, n - h) ELSE half

CurrentNet == NetState(protocols, connections, conn_order, net_outcome)

Calls == Len(observed)

ProcessPacket(p) ==
    /\ Calls < MaxCalls
    /\ LET s == _process_packet(CurrentNet, p, now)
       IN  /\ protocols' = s.protocols
           /\ connections' = s.connections
           /\ conn_order' = s.conn_order
           /\ net_outcome' = s.outcome
    /\ observed' = Append(observed, [pkt |-> p, time |-> now, n |-> 1])
    /\ dirty' = TRUE
    /\ UNCHANGED <<now, packets, net_report, mon_vars, conc_vars>>

-----------------------------------------------------------------------------
(* NetworkAnalyzer.start_capture                                           *)

\* sniff() hands n copies of p to _process_packet and then either returns
\* the captured list or raises (fails); only a returned list reaches
\* self.packets.
StartCapture(p, n, fails) ==
    /\ Calls < MaxCalls
    /\ p.kind # None
    /\ LET s == Deliver(CurrentNet, p, now, n)
       IN  /\ protocols' = s.protocols
           /\ connections' = s.connections
           /\ conn_order' = s.conn_order
    /\ packets' = IF fails \/ n = 0 THEN packets
                  ELSE Append(packets, [pkt |-> p, time |-> now, n |-> n])
    /\ net_outcome' = IF fails THEN "raised" ELSE "ok"
    /\ observed' = IF n = 0 THEN observed
                   ELSE Append(observed, [pkt |-> p, time |-> now, n |-> n])
    /\ dirty' = (dirty \/ n > 0)
    /\ UNCHANGED <<now, net_report, mon_vars, conc_vars>>

-----------------------------------------------------------------------------
(* _process_packet called from several threads                             *)

\* The class holds no lock.  The interpreter may switch threads between the
\* statements of lines 90-106 and inside an augmented assignment, between
\* the read of d[key] and the store to d[key]: in line 101 len(packet) is
\* called between the two.  A stats dict is an object: a thread that
\* fetched self.connections[conn_key] keeps writing to that object even
\* when the key was bound to a new dict meanwhile.
Producers == 1..MaxProducers

IdleProducer == [pc |-> "idle", pkt |-> NonePacket, obj |-> 0, tmp |-> 0]

\* Valid packets of two keys.
ConcPackets ==
    { Pkt("TCP", TRUE, AddrA, AddrB, 60, 80, "none"),
      Pkt("UDP", TRUE, AddrA, AddrB, 30, 53, "none"),
      Pkt("TCP", TRUE, AddrB, AddrA, 50, 22, "none") }

\* self.connections by value.
Deref(r, h) == [k \in DOMAIN r |-> h[r[k]].stats]

\* The part of the analyzer no step of a producer writes.
ProducerFrame == UNCHANGED <<now, packets, net_report, dirty, mon_vars>>

\* Lines 80-87 for packet p, and the formatting of conn_key (line 91).
Begin(t, p) ==
    /\ producers[t].pc = "idle"
    /\ protocols' = ExtractProtocol(protocols, p).protocols
    /\ producers' = [producers EXCEPT ![t] = [@ EXCEPT !.pc = "test",
                                                       !.pkt = p]]
    /\ observed' = Append(observed, [pkt |-> p, time |-> now, n |-> 1])
    /\ UNCHANGED <<connections, conn_order, net_outcome, heap, refs>>
    /\ ProducerFrame

\* if conn_key not in self.connections: line 92.
TestKey(t) ==
    /\ producers[t].pc = "test"
    /\ producers' = [producers EXCEPT ![t].pc =
                        IF conn_key(producers[t].pkt) \in DOMAIN refs
                        THEN "load packets" ELSE "init"]
    /\ UNCHANGED <<protocols, connections, conn_order, net_outcome, observed,
                   heap, refs>>
    /\ ProducerFrame

\* self.connections[conn_key] = {...}: lines 93-98.
InitKey(t) ==
    /\ producers[t].pc = "init"
    /\ LET k == conn_key(producers[t].pkt)
       IN  /\ heap' = Append(heap, [key |-> k, stats |-> NewStats(now)])
           /\ refs' = [x \in DOMAIN refs \cup {k} |->
                          IF x = k THEN Len(heap) + 1 ELSE refs[x]]
           /\ conn_order' = IF k \in DOMAIN refs THEN conn_order
                            ELSE Append(conn_order, k)
    /\ connections' = Deref(refs', heap')
    /\ producers' = [producers EXCEPT ![t].pc = "load packets"]
    /\ UNCHANGED <<protocols, net_outcome, observed>>
    /\ ProducerFrame

\* The read of self.connections[conn_key]["packets"] in line 100.
LoadPackets(t) ==
    /\ producers[t].pc = "load packets"
    /\ LET o == refs[conn_key(producers[t].pkt)]
       IN  producers' = [producers EXCEPT ![t] =
                            [@ EXCEPT !.pc = "store packets", !.obj = o,
                                      !.tmp = heap[o].stats.packets]]
    /\ UNCHANGED <<protocols, connections, conn_order, net_outcome, observed,
                   heap, refs>>
    /\ ProducerFrame

\* The store of line 100.
StorePackets(t) ==
    /\ producers[t].pc = "store packets"
    /\ heap' = [heap EXCEPT ![producers[t].obj].stats.packets =
                                producers[t].tmp + 1]
    /\ connections' = Deref(refs, heap')
    /\ producers' = [producers EXCEPT ![t].pc = "load bytes"]
    /\ UNCHANGED <<protocols, conn_order, net_outcome, observed, refs>>
    /\ ProducerFrame

\* The read of self.connections[conn_key]["bytes"] in line 101.
LoadBytes(t) ==
    /\ producers[t].pc = "load bytes"
    /\ LET o == refs[conn_key(producers[t].pkt)]
       IN  producers' = [producers EXCEPT ![t] =
                            [@ EXCEPT !.pc = "store bytes", !.obj = o,
                                      !.tmp = heap[o].stats.bytes]]
    /\ UNCHANGED <<protocols, connections, conn_order, net_outcome, observed,
                   heap, refs>>
    /\ ProducerFrame

\* The store of line 101, after len(packet).
StoreBytes(t) ==
    /\ producers[t].pc = "store bytes"
    /\ heap' = [heap EXCEPT ![producers[t].obj].stats.bytes =
                                producers[t].tmp + producers[t].pkt.len]
    /\ connections' = Deref(refs, heap')
    /\ producers' = [producers EXCEPT ![t].pc = "tag"]
    /\ UNCHANGED <<protocols, conn_order, net_outcome, observed, refs>>
    /\ ProducerFrame

\* Lines 103-106 and the return.
TagConnection(t) ==
    /\ producers[t].pc = "tag"
    /\ LET o == refs[conn_key(producers[t].pkt)]
           l4 == producers[t].pkt.l4
       IN  heap' = [heap EXCEPT ![o].stats.protocols =
                                   IF l4 \in {"TCP", "UDP"}
                                   THEN @ \cup {l4} ELSE @]
    /\ connections' = Deref(refs, heap')
    /\ producers' = [producers EXCEPT ![t].pc = "done"]
    /\ net_outcome' = Handler("ok")
    /\ UNCHANGED <<protocols, conn_order, observed, refs>>
    /\ ProducerFrame

-----------------------------------------------------------------------------
(* NetworkAnalyzer.generate_report / _add_security_findings                *)

BurstThreshold == 1000
TrafficWindow == 10

\* str.split(sep): the pieces of s between occurrences of sep.
RECURSIVE Split(_, _)
Split(s, sep) ==
    IF \A i \in 1..Len(s) : s[i] # sep THEN <<s>>
    ELSE LET i == CHOOSE j \in 1..Len(s) :
                     s[j] = sep /\ \A m \in 1..(j - 1) : s[m] # sep
         IN  <<SubSeq(s, 1, i - 1)>> \o Split(SubSeq(s, i + 1, Len(s)), sep)

RECURSIVE TotalPackets(_)
TotalPackets(ps) ==
    IF ps = <<>> THEN 0 ELSE ps[1].n + TotalPackets(Tail(ps))

\* "Analyze connections": one entry per key, in dict order.
ReportConnection(k, c, t) ==
    LET parts == Split(k, ":")
    IN  [source |-> parts[1], destination |-> parts[2],
         packets |-> c.packets, bytes |-> c.bytes,
         duration |-> t - c.start_time, protocols |-> c.protocols]

Finding(type, severity, description) ==
    [type |-> type, severity |-> severity, description |-> description]

RECURSIVE TrafficFindings(_)
TrafficFindings(conns) ==
    IF conns = <<>> THEN <<>>
    ELSE LET c == conns[1]
         IN  (IF c.packets > BurstThreshold /\ c.duration < TrafficWindow
              THEN <<Finding("TRAFFIC", "MEDIUM",
                             <<"High packet rate from">> \o c.source)>>
              ELSE <<>>) \o TrafficFindings(Tail(conns))

\* Variant: the HTTP check made once per connection instead of once per
\* report.
RECURSIVE PlaintextPerConnection(_, _)
PlaintextPerConnection(protos, conns) ==
    IF conns = <<>> THEN <<>>
    ELSE (IF "HTTP" \in protos
          THEN <<Finding("PLAINTEXT", "HIGH",
                         <<"Plaintext HTTP traffic detected">>)>>
          ELSE <<>>) \o PlaintextPerConnection(protos, Tail(conns))

_add_security_findings_per_connection(protos, conns) ==
    PlaintextPerConnection(protos, conns)
    \o (IF "FTP" \in protos
        THEN <<Finding("PLAINTEXT", "HIGH", <<"Plaintext FTP traffic detected">>)>>
        ELSE <<>>)
    \o TrafficFindings(conns)

_add_security_findings(protos, conns) ==
    (IF "HTTP" \in protos
     THEN <<Finding("PLAINTEXT", "HIGH", <<"Plaintext HTTP traffic detected">>)>>
     ELSE <<>>)
    \o (IF "FTP" \in protos
        THEN <<Finding("PLAINTEXT", "HIGH", <<"Plaintext FTP traffic detected">>)>>
        ELSE <<>>)
    \o TrafficFindings(conns)

\* src, dst = conn_key.split(":") raises ValueError unless the key has
\* exactly two pieces.
SplitRaises == \E i \in 1..Len(conn_order) : Len(Split(conn_order[i], ":")) # 2

\* The report built at clock reading t.
generate_report(t) ==
    LET conns == [i \in 1..Len(conn_order) |->
                     ReportConnection(conn_order[i],
                                      connections[conn_order[i]], t)]
    IN  [timestamp |-> t,
         duration |-> IF packets # <<>>
                      THEN packets[Len(packets)].time - packets[1].time
                      ELSE 0,
         total_packets |-> TotalPackets(packets),
         protocols |-> protocols,
         connections |-> conns,
         findings |-> _add_security_findings(protocols, conns)]

NoReport == [timestamp |-> -1, duration |-> 0, total_packets |-> 0,
             protocols |-> {}, connections |-> <<>>, findings |-> <<>>]

GenerateReport ==
    /\ net_report' = IF SplitRaises THEN NoReport ELSE generate_report(now)
    /\ net_outcome' = IF SplitRaises THEN "raised" ELSE "ok"
    /\ dirty' = FALSE
    /\ UNCHANGED <<now, packets, connections, conn_order, protocols, observed,
                   mon_vars, conc_vars>>

-----------------------------------------------------------------------------
(* Clock                                                                   *)

TickStep == TrafficWindow \div 2

Tick ==
    /\ now + TickStep <= MaxTime
    /\ now' = now + TickStep
    /\ UNCHANGED <<net_vars, mon_vars>>

-----------------------------------------------------------------------------
(* SystemMonitor: state records                                            *)

\* The fields of a state dict that the rules read: cpu.percent,
\* memory.virtual.percent, the percent of each disk.usage entry in dict
\* order, processes.total and network.connections.
State(ts, cpu, mem, disk, procs, conns) ==
    [timestamp |-> ts, cpu_percent |-> cpu, memory_percent |-> mem,
     disk_usage |-> disk, processes_total |-> procs,
     network_connections |-> conns]

\* self.baseline = None
NoState == State(-1, 0, 0, <<>>, 0, 0)

\* What psutil may report at one acquisition.
Readings ==
    { State(0, 50, 50, <<50>>,         10, 4),
      State(0, 95, 95, <<95, 50, 95>>, 16, 1001),
      State(0, 90, 90, <<90>>,         15, 8) }

\* A state dict is never empty, so it reads the clock and is truthy.
_get_system_state(reading, t) == [reading EXCEPT !.timestamp = t]

-----------------------------------------------------------------------------
(* SystemMonitor._check_anomalies                                          *)

CpuLimit == 90
MemoryLimit == 90
DiskLimit == 90
ProcessFactorTenths == 15    \* baseline * 1.5, in tenths
ConnectionFactor == 2

Anomaly(ts, type, severity) ==
    [timestamp |-> ts, type |-> type, severity |-> severity]

RECURSIVE DiskAnomalies(_, _)
DiskAnomalies(ts, usage) ==
    IF usage = <<>> THEN <<>>
    ELSE (IF usage[1] > DiskLimit
          THEN <<Anomaly(ts, "DISK_SPACE", "MEDIUM")>>
          ELSE <<>>) \o DiskAnomalies(ts, Tail(usage))

\* Variant: the memory rule evaluated before the CPU rule.
AbsoluteAnomalies_memory_first(sample) ==
    (IF sample.memory_percent > MemoryLimit
     THEN <<Anomaly(sample.timestamp, "MEMORY_USAGE", "HIGH")>>
     ELSE <<>>)
    \o (IF sample.cpu_percent > CpuLimit
        THEN <<Anomaly(sample.timestamp, "CPU_USAGE", "HIGH")>>
        ELSE <<>>)
    \o DiskAnomalies(sample.timestamp, sample.disk_usage)

\* CPU, memory and disk: lines 144-180.
AbsoluteAnomalies(sample) ==
    (IF sample.cpu_percent > CpuLimit
     THEN <<Anomaly(sample.timestamp, "CPU_USAGE", "HIGH")>>
     ELSE <<>>)
    \o (IF sample.memory_percent > MemoryLimit
        THEN <<Anomaly(sample.timestamp, "MEMORY_USAGE", "HIGH")>>
        ELSE <<>>)
    \o DiskAnomalies(sample.timestamp, sample.disk_usage)

\* Variant: the process rule with >= in place of >.
ProcessCountRule_inclusive(sample, base) ==
    IF 10 * sample.processes_total >= ProcessFactorTenths * base.processes_total
    THEN <<Anomaly(sample.timestamp, "PROCESS_COUNT", "MEDIUM")>>
    ELSE <<>>

\* Process count: lines 182-191.
ProcessCountRule(sample, base) ==
    IF 10 * sample.processes_total > ProcessFactorTenths * base.processes_total
    THEN <<Anomaly(sample.timestamp, "PROCESS_COUNT", "MEDIUM")>>
    ELSE <<>>

\* Variant: the connection rule with >= in place of >.
ConnectionRule_inclusive(sample, base) ==
    IF sample.network_connections
          >= base.network_connections * ConnectionFactor
    THEN <<Anomaly(sample.timestamp, "NETWORK_CONNECTIONS", "HIGH")>>
    ELSE <<>>

\* Network connections: lines 193-205.
ConnectionRule(sample, base) ==
    IF sample.network_connections
          > base.network_connections * ConnectionFactor
    THEN <<Anomaly(sample.timestamp, "NETWORK_CONNECTIONS", "HIGH")>>
    ELSE <<>>

\* The anomalies appended to results["anomalies"], and whether the call
\* raised: with self.baseline = None the subscript at line 183 raises
\* TypeError after the absolute rules have appended theirs.
_check_anomalies(sample, base) ==
    IF base = NoState
    THEN [findings |-> AbsoluteAnomalies(sample), raised |-> TRUE]
    ELSE [findings |-> AbsoluteAnomalies(sample)
                         \o ProcessCountRule(sample, base)
                         \o ConnectionRule(sample, base),
          raised |-> FALSE]

-----------------------------------------------------------------------------
(* SystemMonitor.monitor                                                   *)

\* interval is the rational iv[1] / iv[2], iv[2] > 0.
NewResults(t, d, iv) ==
    [start_time |-> t, duration |-> d, interval |-> iv, samples |-> <<>>,
     anomalies |-> <<>>, security_issues |-> <<>>,
     has_baseline |-> FALSE, baseline |-> NoState]

NoResults == NewResults(-1, 0, <<1, 1>>)

Abs(x) == IF x < 0 THEN -x ELSE x

\* int(a / b): the quotient truncated toward zero.
Trunc(a, b) ==
    LET q == Abs(a) \div Abs(b)
    IN  IF (a < 0) # (b < 0) THEN -q ELSE q

\* int(duration / interval)
SamplesCount(d, iv) == Trunc(d * iv[2], iv[1])

\* "if not self.baseline"
Falsy_always(b) == TRUE

Falsy(b) == b = NoState

\* Variant: one iteration more than range(samples_count) makes.
LoopHead_inclusive(i, n) == IF i <= n THEN "sample" ELSE "assess"

\* for _ in range(samples_count): the next position after i iterations.
LoopHead(i, n) == IF i < n THEN "sample" ELSE "assess"

Durations == {-1, 0, 1, 2, 3}
Intervals == {<<1, 1>>, <<1, 2>>, <<2, 1>>, <<0, 1>>, <<-1, 1>>}

\* Entry of monitor(duration, interval): lines 48-55.
MonitorStart(d, iv) ==
    /\ pc \in {"idle", "returned", "raised", "cancelled"}
    /\ sessions < MaxSessions
    /\ iv[1] # 0 => SamplesCount(d, iv) <= MaxSamples
    /\ results' = NewResults(now, d, iv)
    /\ pc' = "baseline"
    /\ iteration' = 0
    /\ samples_count' = 0
    /\ evaluated' = <<>>
    /\ sessions' = sessions + 1
    /\ mon_outcome' = "running"
    /\ requests' = <<>>
    /\ UNCHANGED <<now, baseline, mon_report>>
    /\ UNCHANGED net_vars

\* How a psutil call of the session ended: _get_system_state returned a
\* record or raised; the inspection of one process raised.
StateOk == "state"
StateFailed == "state failed"
ProcessSkipped == "process skipped"

\* Variant: the failure is swallowed and the call returns its results.
Raise_swallowed ==
    /\ pc' = "returned"
    /\ mon_outcome' = "returned"

\* Variant: the failure is swallowed and the step is tried again.
Raise_retried ==
    /\ pc' = pc
    /\ mon_outcome' = "running"

\* The except clause of monitor: log and re-raise.
Raise ==
    /\ pc' = "raised"
    /\ mon_outcome' = "raised"

\* "Take initial baseline": lines 59-61.
TakeBaseline ==
    /\ pc = "baseline"
    /\ \/ /\ ~Falsy(baseline)
          /\ pc' = "count"
          /\ UNCHANGED <<now, baseline, results, mon_outcome, requests>>
       \/ /\ Falsy(baseline)
          /\ \E r \in Readings :
                LET s == _get_system_state(r, now)
                IN  /\ baseline' = s
                    /\ results' = [results EXCEPT !.has_baseline = TRUE,
                                                  !.baseline = s]
          /\ now' = now + 1
          /\ pc' = "count"
          /\ requests' = Append(requests, StateOk)
          /\ UNCHANGED mon_outcome
       \/ /\ Falsy(baseline)
          /\ Raise
          /\ requests' = Append(requests, StateFailed)
          /\ UNCHANGED <<now, baseline, results>>
    /\ UNCHANGED <<iteration, samples_count, evaluated, sessions, mon_report>>
    /\ UNCHANGED net_vars

\* samples_count = int(duration / interval): line 64.
ComputeCount ==
    /\ pc = "count"
    /\ IF results.interval[1] = 0
       THEN Raise /\ UNCHANGED samples_count
       ELSE LET n == SamplesCount(results.duration, results.interval)
            IN  /\ samples_count' = n
                /\ pc' = LoopHead(0, n)
                /\ UNCHANGED mon_outcome
    /\ UNCHANGED <<now, baseline, results, iteration, evaluated, sessions,
                   mon_report, requests>>
    /\ UNCHANGED net_vars

\* sample = await self._get_system_state(); append: lines 66-67.
TakeSample ==
    /\ pc = "sample"
    /\ \/ /\ \E r \in Readings :
                results' = [results EXCEPT
                               !.samples = Append(@, _get_system_state(r, now))]
          /\ now' = now + 1
          /\ pc' = "check"
          /\ requests' = Append(requests, StateOk)
          /\ UNCHANGED mon_outcome
       \/ /\ Raise
          /\ requests' = Append(requests, StateFailed)
          /\ UNCHANGED <<now, results>>
    /\ UNCHANGED <<baseline, iteration, samples_count, evaluated, sessions,
                   mon_report>>
    /\ UNCHANGED net_vars

\* Variant: the findings of the sample replace the list.
CheckAnomalies_replacing ==
    /\ pc = "check"
    /\ LET sample == results.samples[Len(results.samples)]
           c == _check_anomalies(sample, baseline)
       IN  /\ results' = [results EXCEPT !.anomalies = c.findings]
           /\ evaluated' = Append(evaluated, sample)
           /\ IF c.raised THEN Raise
              ELSE pc' = "sleep" /\ UNCHANGED mon_outcome
    /\ UNCHANGED <<now, baseline, iteration, samples_count, sessions,
                   mon_report, requests>>
    /\ UNCHANGED net_vars

\* await self._check_anomalies(sample, results): line 70.
CheckAnomalies ==
    /\ pc = "check"
    /\ LET sample == results.samples[Len(results.samples)]
           c == _check_anomalies(sample, baseline)
       IN  /\ results' = [results EXCEPT !.anomalies = @ \o c.findings]
           /\ evaluated' = Append(evaluated, sample)
           /\ IF c.raised THEN Raise
              ELSE pc' = "sleep" /\ UNCHANGED mon_outcome
    /\ UNCHANGED <<now, baseline, iteration, samples_count, sessions,
                   mon_report, requests>>
    /\ UNCHANGED net_vars

\* await asyncio.sleep(interval), then the next round of the loop: line 72.
Sleep ==
    /\ pc = "sleep"
    /\ iteration' = iteration + 1
    /\ pc' = LoopHead(iteration + 1, samples_count)
    /\ UNCHANGED <<now, baseline, results, samples_count, evaluated, sessions,
                   mon_outcome, mon_report, requests>>
    /\ UNCHANGED net_vars

\* The positions of a monitor() call that has not ended yet.
Running == {"baseline", "count", "sample", "check", "sleep", "assess"}

\* Cancellation of the running session: asyncio.CancelledError delivered at
\* an await, or KeyboardInterrupt.  Both derive from BaseException, so the
\* "except Exception" clause of line 79 does not catch them and they leave
\* monitor() at once.
Cancel ==
    /\ pc \in Running
    /\ pc' = "cancelled"
    /\ mon_outcome' = "cancelled"
    /\ UNCHANGED <<now, baseline, results, iteration, samples_count, evaluated,
                   sessions, mon_report, requests>>
    /\ UNCHANGED net_vars

\* What "results = await monitor.monitor()" binds in the caller: the dict
\* monitor() returned; a call that raised binds nothing.
CallerResults == IF pc = "returned" THEN results ELSE NoResults

-----------------------------------------------------------------------------
(* SystemMonitor._security_assessment                                      *)

ConnectionsLimit == 1000

Issue(type, severity) == [timestamp |-> -1, type |-> type, severity |-> severity]

\* A process as psutil.process_iter reports it: whether it runs as root and
\* whether its name contains "crypto", "miner" or "botnet".
Proc(root, suspicious) ==
    [root |-> root, suspicious |-> suspicious, raises |-> FALSE]

\* A process whose inspection raises psutil.NoSuchProcess or
\* psutil.AccessDenied.
Inaccessible(root) == [Proc(root, FALSE) EXCEPT !.raises = TRUE]

ProcessTables ==
    { <<>>,
      <<Proc(TRUE, FALSE)>>,
      <<Proc(FALSE, FALSE), Proc(TRUE, TRUE)>>,
      <<Inaccessible(TRUE), Proc(FALSE, FALSE)>> }

\* The loop of lines 214-245: "except (NoSuchProcess, AccessDenied):
\* continue" leaves no trace of the process.
RECURSIVE ProcessIssues(_)
ProcessIssues(procs) ==
    IF procs = <<>> THEN <<>>
    ELSE (IF procs[1].raises THEN <<>>
          ELSE (IF procs[1].root
                THEN <<Issue("PROCESS_PRIVILEGE", "MEDIUM")>> ELSE <<>>)
               \o (IF procs[1].suspicious
                   THEN <<Issue("SUSPICIOUS_PROCESS", "HIGH")>> ELSE <<>>))
         \o ProcessIssues(Tail(procs))

\* One log entry for every process the loop skipped.
RECURSIVE SkippedProcesses(_)
SkippedProcesses(procs) ==
    IF procs = <<>> THEN <<>>
    ELSE (IF procs[1].raises THEN <<ProcessSkipped>> ELSE <<>>)
         \o SkippedProcesses(Tail(procs))

\* Lines 213-256; results["samples"][-1] raises IndexError on an empty list.
SecurityAssessment(procs) ==
    /\ pc = "assess"
    /\ LET issues == ProcessIssues(procs)
           n == Len(results.samples)
       IN  IF n = 0
           THEN /\ results' = [results EXCEPT !.security_issues = @ \o issues]
                /\ Raise
           ELSE /\ results' =
                     [results EXCEPT !.security_issues =
                         @ \o issues
                           \o (IF results.samples[n].network_connections
                                     > ConnectionsLimit
                               THEN <<Issue("NETWORK_CONNECTIONS", "MEDIUM")>>
                               ELSE <<>>)]
                /\ pc' = "returned"
                /\ mon_outcome' = "returned"
    /\ requests' = requests \o SkippedProcesses(procs)
    /\ UNCHANGED <<now, baseline, iteration, samples_count, evaluated, sessions,
                   mon_report>>
    /\ UNCHANGED net_vars

-----------------------------------------------------------------------------
(* SystemMonitor.generate_report / _calculate_risk_level                   *)

\* Variant: HIGH and MEDIUM scored the other way round.
severity_scores_swapped(severity) ==
    CASE severity = "CRITICAL" -> 4
      [] severity = "HIGH" -> 2
      [] severity = "MEDIUM" -> 3
      [] severity = "LOW" -> 1
      [] OTHER -> 0

\* severity_scores.get(severity, 0)
severity_scores(severity) ==
    CASE severity = "CRITICAL" -> 4
      [] severity = "HIGH" -> 3
      [] severity = "MEDIUM" -> 2
      [] severity = "LOW" -> 1
      [] OTHER -> 0

\* The loop of lines 308-311, from the running maximum max_score.
RECURSIVE MaxScore(_, _)
MaxScore(items, max_score) ==
    IF items = <<>> THEN max_score
    ELSE LET score == severity_scores(items[1].severity)
         IN  MaxScore(Tail(items),
                      IF score > max_score THEN score ELSE max_score)

_calculate_risk_level(anomalies, security_issues) ==
    LET max_score == MaxScore(anomalies \o security_issues, 0)
    IN  IF max_score >= 4 THEN "CRITICAL"
        ELSE IF max_score >= 3 THEN "HIGH"
        ELSE IF max_score >= 2 THEN "MEDIUM"
        ELSE "LOW"

NoMonReport ==
    [initial |-> NoState, final |-> NoState, anomalies |-> <<>>,
     security_issues |-> <<>>, total_anomalies |-> -1,
     total_security_issues |-> -1, risk_level |-> None]

\* The report dict of lines 267-286.
MonReport(r) ==
    [initial |-> r.baseline,
     final |-> r.samples[Len(r.samples)],
     anomalies |-> r.anomalies,
     security_issues |-> r.security_issues,
     total_anomalies |-> Len(r.anomalies),
     total_security_issues |-> Len(r.security_issues),
     risk_level |-> _calculate_risk_level(r.anomalies, r.security_issues)]

\* generate_report(results) on the results monitor() returned;
\* results["baseline"] raises KeyError when the key is missing and
\* results["samples"][-1] raises IndexError on an empty list.
MonGenerateReport ==
    /\ pc = "returned"
    /\ IF ~results.has_baseline \/ results.samples = <<>>
       THEN /\ mon_report' = NoMonReport
            /\ mon_outcome' = "report raised"
       ELSE /\ mon_report' = MonReport(results)
            /\ mon_outcome' = "reported"
    /\ UNCHANGED <<now, baseline, pc, results, iteration, samples_count,
                   evaluated, sessions, requests>>
    /\ UNCHANGED net_vars

-----------------------------------------------------------------------------
(* A direct call of _check_anomalies, as the tests make it                 *)

\* results = {"anomalies": [], "samples": [state]};
\* await monitor._check_anomalies(state, results)
DirectCheck(reading) ==
    /\ pc = "idle"
    /\ LET sample == _get_system_state(reading, now)
           c == _check_anomalies(sample, baseline)
       IN  /\ results' = [NoResults EXCEPT !.samples = <<sample>>,
                                           !.anomalies = c.findings]
           /\ evaluated' = <<sample>>
           /\ mon_outcome' = IF c.raised THEN "raised" ELSE "checked"
    /\ UNCHANGED <<now, baseline, pc, iteration, samples_count, sessions,
                   mon_report, requests>>
    /\ UNCHANGED net_vars

-----------------------------------------------------------------------------
(* Specifications                                                          *)

InitNetVars ==
    /\ packets = <<>>
    /\ connections = <<>>
    /\ conn_order = <<>>
    /\ protocols = {}
    /\ net_outcome = "none"
    /\ net_report = NoReport
    /\ observed = <<>>
    /\ dirty = FALSE
    /\ producers = [t \in Producers |-> IdleProducer]
    /\ heap = <<>>
    /\ refs = <<>>

InitMonVars ==
    /\ baseline = NoState
    /\ pc = "idle"
    /\ results = NoResults
    /\ iteration = 0
    /\ samples_count = 0
    /\ evaluated = <<>>
    /\ sessions = 0
    /\ mon_outcome = "none"
    /\ mon_report = NoMonReport
    /\ requests = <<>>

InitNet ==
    /\ now = 0
    /\ InitNetVars
    /\ InitMonVars

\* Single packets, fed directly (as the tests do) or by a capture, all
\* within one clock reading.
NextNet ==
    \/ \E p \in Packets : ProcessPacket(p)
    \/ \E p \in Packets, n \in {0, 1}, fails \in BOOLEAN :
          StartCapture(p, n, fails)
    \/ GenerateReport

SpecNet == InitNet /\ [][NextNet]_vars

\* Captures that deliver a burst of equal packets.
FloodPackets ==
    { Pkt("TCP", TRUE, AddrA, AddrB, 60, 80,  "none"),
      Pkt("UDP", TRUE, AddrB, AddrA, 30, 53,  "none") }

BurstSizes == {BurstThreshold, BurstThreshold + 1}

Bursts == Cardinality({i \in 1..Len(observed) : observed[i].n > 1})

NextBurst ==
    \/ \E p \in FloodPackets : ProcessPacket(p)
    \/ \E p \in FloodPackets, n \in BurstSizes :
          Bursts < MaxBursts /\ StartCapture(p, n, FALSE)
    \/ GenerateReport
    \/ Tick

SpecBurst == InitNet /\ [][NextBurst]_vars

\* Threads that each hand one packet to _process_packet of the same analyzer.
NextConc ==
    \/ \E t \in Producers, p \in ConcPackets : Begin(t, p)
    \/ \E t \in Producers : TestKey(t)
    \/ \E t \in Producers : InitKey(t)
    \/ \E t \in Producers : LoadPackets(t)
    \/ \E t \in Producers : StorePackets(t)
    \/ \E t \in Producers : LoadBytes(t)
    \/ \E t \in Producers : StoreBytes(t)
    \/ \E t \in Producers : TagConnection(t)

SpecConc == InitNet /\ [][NextConc]_vars

\* Monitoring sessions on one SystemMonitor instance, each followed or not
\* by generate_report.
InitMon ==
    /\ now = 0
    /\ InitNetVars
    /\ InitMonVars

NextMon ==
    \/ \E d \in Durations, iv \in Intervals : MonitorStart(d, iv)
    \/ TakeBaseline
    \/ ComputeCount
    \/ TakeSample
    \/ CheckAnomalies
    \/ Sleep
    \/ Cancel
    \/ \E procs \in ProcessTables : SecurityAssessment(procs)
    \/ MonGenerateReport

SpecMon == InitMon /\ [][NextMon]_vars

\* The steps monitor() takes by itself.  The event loop runs the coroutine
\* until it ends: a psutil call returns or raises, and asyncio.sleep elapses.
SessionStep ==
    \/ TakeBaseline
    \/ ComputeCount
    \/ TakeSample
    \/ CheckAnomalies
    \/ Sleep
    \/ \E procs \in ProcessTables : SecurityAssessment(procs)

SpecMonFair == SpecMon /\ WF_vars(SessionStep)

\* One rule evaluation on an idle monitor whose baseline an earlier session
\* left behind (or that has none yet).
RuleBaselines ==
    { State(0, 50, 50, <<>>, procs, conns) :
        procs \in {0, 2, 10}, conns \in {0, 3} }

RuleReadings ==
    { State(0, cpu, mem, disk, procs, conns) :
        cpu \in {75, 85, 90, 95}, mem \in {50, 95}, disk \in {<<>>, <<95>>},
        procs \in {0, 1, 3, 4, 14, 15, 16}, conns \in {0, 1, 6, 7} }

InitRules ==
    /\ now = 1
    /\ InitNetVars
    /\ baseline \in RuleBaselines \cup {NoState}
    /\ pc = "idle"
    /\ results = NoResults
    /\ iteration = 0
    /\ samples_count = 0
    /\ evaluated = <<>>
    /\ sessions = 0
    /\ mon_outcome = "none"
    /\ mon_report = NoMonReport
    /\ requests = <<>>

NextRules == \E r \in RuleReadings : DirectCheck(r)

SpecRules == InitRules /\ [][NextRules]_vars

\* generate_report on results a caller hands in: any findings of the four
\* severities.
Severities == {"LOW", "MEDIUM", "HIGH", "CRITICAL"}

SeverityLists ==
    UNION { [1..n -> Severities] : n \in 0..MaxFindings }

Findings(sevs) == [i \in 1..Len(sevs) |-> Anomaly(0, "CPU", sevs[i])]

InitReport ==
    /\ now = 1
    /\ InitNetVars
    /\ baseline = NoState
    /\ pc = "returned"
    /\ \E a \in SeverityLists, b \in SeverityLists :
          results = [NoResults EXCEPT
                        !.samples = <<State(0, 10, 50, <<>>, 10, 4)>>,
                        !.has_baseline = TRUE,
                        !.baseline = State(0, 5, 45, <<>>, 10, 4),
                        !.anomalies = Findings(a),
                        !.security_issues = Findings(b)]
    /\ iteration = 0
    /\ samples_count = 0
    /\ evaluated = <<>>
    /\ sessions = 0
    /\ mon_outcome = "returned"
    /\ mon_report = NoMonReport
    /\ requests = <<>>

NextReport == MonGenerateReport

SpecReport == InitReport /\ [][NextReport]_vars

-----------------------------------------------------------------------------
(* Properties of the network analyzer                                      *)

Addrs == {AddrA, AddrB}

\* A record that fails validation: None, or a request line that does not
\* decode.
InvalidRecord(p) == p.kind = None \/ p.http = "badrequest"

\* A valid record of the key (src, dst).
RecordOf(p, src, dst) ==
    ~InvalidRecord(p) /\ p.ip /\ p.src = src /\ p.dst = dst

RECURSIVE CountFor(_, _, _)
CountFor(log, src, dst) ==
    IF log = <<>> THEN 0
    ELSE (IF RecordOf(log[1].pkt, src, dst) THEN log[1].n ELSE 0)
         + CountFor(Tail(log), src, dst)

RECURSIVE BytesFor(_, _, _)
BytesFor(log, src, dst) ==
    IF log = <<>> THEN 0
    ELSE (IF RecordOf(log[1].pkt, src, dst)
          THEN log[1].n * log[1].pkt.len ELSE 0)
         + BytesFor(Tail(log), src, dst)

\* C1: for every key (source, destination) the aggregate's packet count is
\* the number of valid records observed for that key and its byte count the
\* sum of their lengths; a key without valid records has no aggregate, and
\* records of other keys change nothing.
C1_AggregateCounts ==
    /\ \A src \in Addrs, dst \in Addrs :
          LET k == src \o <<":">> \o dst
              cnt == CountFor(observed, src, dst)
          IN  IF cnt = 0 THEN k \notin DOMAIN connections
              ELSE /\ k \in DOMAIN connections
                   /\ connections[k].packets = cnt
                   /\ connections[k].bytes = BytesFor(observed, src, dst)
    /\ \A k \in DOMAIN connections :
          \E src \in Addrs, dst \in Addrs : k = src \o <<":">> \o dst

\* Two records of different lengths were folded into one key.
C1_Witness ==
    \E k \in DOMAIN connections :
        connections[k].packets = 2 /\ connections[k].bytes = 100

\* C2: a call of _process_packet with a null/invalid record does not raise
\* to the caller and leaves the connections map and the protocol set as
\* they were.
C2_InvalidIsNoOp ==
    [][\A p \in Packets :
          (InvalidRecord(p) /\ observed' = Append(observed, [pkt |-> p, time |-> now, n |-> 1]))
          => /\ connections' = connections
             /\ conn_order' = conn_order
             /\ protocols' = protocols
             /\ net_outcome' # "raised"]_vars

CountType(fs, type) ==
    Cardinality({i \in 1..Len(fs) : fs[i].type = type})

CountDescription(fs, type, description) ==
    Cardinality({i \in 1..Len(fs) :
                    fs[i].type = type /\ fs[i].description = description})

PlaintextProtocols == {"HTTP", "FTP"}

\* C7 (as stated): a report whose protocol set contains "HTTP" has exactly
\* one PLAINTEXT finding, and a report without plaintext protocol has none.
C7_OnePlaintextFinding ==
    net_report # NoReport =>
        /\ "HTTP" \in net_report.protocols
              => CountType(net_report.findings, "PLAINTEXT") = 1
        /\ net_report.protocols \cap PlaintextProtocols = {}
              => CountType(net_report.findings, "PLAINTEXT") = 0

\* C7 (amended): a report has exactly one PLAINTEXT finding, of severity
\* HIGH, for each plaintext protocol (HTTP, FTP) in its protocol set: one
\* for HTTP however many packets or connections carried it, a second one
\* exactly when FTP was seen too, none when neither was seen.
C7_OnePlaintextFindingPerProtocol ==
    net_report # NoReport =>
        LET fs == net_report.findings
            n(proto, description) ==
                IF proto \in net_report.protocols
                THEN CountDescription(fs, "PLAINTEXT", description) = 1
                ELSE CountDescription(fs, "PLAINTEXT", description) = 0
        IN  /\ n("HTTP", <<"Plaintext HTTP traffic detected">>)
            /\ n("FTP", <<"Plaintext FTP traffic detected">>)
            /\ CountType(fs, "PLAINTEXT")
                  = Cardinality(net_report.protocols \cap PlaintextProtocols)
            /\ \A i \in 1..Len(fs) :
                  fs[i].type = "PLAINTEXT" => fs[i].severity = "HIGH"

\* A report over two connections that carried HTTP and FTP.
C7_Witness ==
    /\ net_report # NoReport
    /\ PlaintextProtocols \subseteq net_report.protocols
    /\ Len(net_report.connections) = 2

\* C8: two generate_report calls with no _process_packet call in between
\* return the same findings and the same connection counts, whatever the
\* clock reads at the two calls.
C8_ReportIdempotent ==
    [][(net_report # NoReport /\ ~dirty /\ ~dirty' /\ net_report'# NoReport)
         => /\ net_report'.findings = net_report.findings
            /\ Len(net_report'.connections) = Len(net_report.connections)
            /\ net_report'.total_packets = net_report.total_packets]_vars

-----------------------------------------------------------------------------
(* Properties of the system monitor                                        *)

SeverityOrder == <<"LOW", "MEDIUM", "HIGH", "CRITICAL">>

Rank(severity) == CHOOSE i \in 1..Len(SeverityOrder) : SeverityOrder[i] = severity

SeveritiesOf(fs) == {fs[i].severity : i \in 1..Len(fs)}

\* C3: the report's risk level is the greatest severity (LOW < MEDIUM < HIGH
\* < CRITICAL) among the findings of anomalies and security_issues taken
\* together as a set, and LOW when there are none.
C3_RiskIsMaxSeverity ==
    mon_outcome = "reported" =>
        LET all == SeveritiesOf(mon_report.anomalies)
                     \cup SeveritiesOf(mon_report.security_issues)
        IN  IF all = {} THEN mon_report.risk_level = "LOW"
            ELSE /\ mon_report.risk_level \in all
                 /\ \A s \in all : Rank(s) <= Rank(mon_report.risk_level)

\* A report whose only CRITICAL finding comes first, before LOW ones.
C3_Witness ==
    /\ mon_outcome = "reported"
    /\ Len(mon_report.anomalies) = 2
    /\ mon_report.anomalies[1].severity = "CRITICAL"
    /\ mon_report.anomalies[2].severity = "LOW"
    /\ SeveritiesOf(mon_report.security_issues) = {"LOW"}
    /\ mon_report.risk_level = "CRITICAL"

CountAnomalies(type, severity) ==
    Cardinality({i \in 1..Len(results.anomalies) :
                    /\ results.anomalies[i].type = type
                    /\ results.anomalies[i].severity = severity})

CountAnomalyType(type) ==
    Cardinality({i \in 1..Len(results.anomalies) :
                    results.anomalies[i].type = type})

\* Values an operator would put in thresholds["cpu"].
CpuThresholdSettings == {50, 80}

\* C4: whatever CPU threshold is configured, an evaluation yields exactly
\* one finding of type CPU and severity HIGH when the sample's cpu_percent
\* is above the threshold, and no CPU finding otherwise.
C4_ConfiguredCpuThreshold ==
    mon_outcome = "checked" =>
        \A threshold \in CpuThresholdSettings :
            IF results.samples[1].cpu_percent > threshold
            THEN CountAnomalies("CPU", "HIGH") = 1 /\ CountAnomalyType("CPU") = 1
            ELSE CountAnomalyType("CPU") = 0

\* C5: an evaluation against a baseline yields exactly one PROCESS_COUNT
\* finding, of severity MEDIUM, when the sample's process count is above 1.5
\* times the baseline's (twice the count above three times the baseline's),
\* and none otherwise.
C5_ProcessCountRule ==
    mon_outcome = "checked" =>
        IF 2 * results.samples[1].processes_total > 3 * baseline.processes_total
        THEN /\ CountAnomalies("PROCESS_COUNT", "MEDIUM") = 1
             /\ CountAnomalyType("PROCESS_COUNT") = 1
        ELSE CountAnomalyType("PROCESS_COUNT") = 0

\* Baseline 10, current 16: one finding.
C5_Witness ==
    /\ mon_outcome = "checked"
    /\ baseline.processes_total = 10
    /\ results.samples[1].processes_total = 16
    /\ CountAnomalies("PROCESS_COUNT", "MEDIUM") = 1

\* C6: an evaluation against a baseline yields exactly one
\* NETWORK_CONNECTIONS finding, of severity HIGH, when the sample's
\* connection count is above twice the baseline's, and none otherwise.
C6_ConnectionRule ==
    mon_outcome = "checked" =>
        IF results.samples[1].network_connections
              > baseline.network_connections + baseline.network_connections
        THEN /\ CountAnomalies("NETWORK_CONNECTIONS", "HIGH") = 1
             /\ CountAnomalyType("NETWORK_CONNECTIONS") = 1
        ELSE CountAnomalyType("NETWORK_CONNECTIONS") = 0

\* Baseline 3, current 7: one finding.
C6_Witness ==
    /\ mon_outcome = "checked"
    /\ baseline.network_connections = 3
    /\ results.samples[1].network_connections = 7
    /\ CountAnomalies("NETWORK_CONNECTIONS", "HIGH") = 1

\* The greatest integer not above a / b, b # 0.
Floor(a, b) == IF b > 0 THEN a \div b ELSE (-a) \div (-b)

\* C9: when monitor() returns, the number of samples in the results is
\* floor(duration / interval), as many rounds of the loop were made, and
\* the samples handed to the rule engine are those samples, once each and in
\* order.
C9_SampleCount ==
    pc = "returned" =>
        LET n == Floor(results.duration * results.interval[2],
                       results.interval[1])
        IN  /\ Len(results.samples) = n
            /\ iteration = n
            /\ evaluated = results.samples

\* A returned session of duration 3 and interval 2: one sample.
C9_Witness ==
    /\ pc = "returned"
    /\ results.duration = 3
    /\ results.interval = <<2, 1>>
    /\ Len(results.samples) = 1
    /\ evaluated = results.samples

\* C10: the baseline is set whenever _check_anomalies is called in a
\* session, and once set it never changes.
C10_BaselineWriteOnce ==
    /\ [](pc = "check" => baseline # NoState)
    /\ [][baseline # NoState => baseline' = baseline]_vars

\* The second session on an instance evaluates a sample against the baseline
\* captured by the first.
C10_Witness ==
    /\ sessions = 2
    /\ pc = "sleep"
    /\ evaluated # <<>>
    /\ baseline # NoState
    /\ baseline.timestamp < results.start_time
    /\ ~results.has_baseline


\* The positions of a session past its baseline step.
PastBaseline == {"count", "sample", "check", "sleep", "assess", "returned"}

\* C11: every session on a monitor, the second and later ones on the same
\* instance included, uses and records as its baseline the first record
\* captured in that same session: past the baseline step, results holds a
\* baseline, it is the one the rules compare with, and it was captured
\* after the session started.
C11_SessionBaseline ==
    pc \in PastBaseline =>
        /\ results.has_baseline
        /\ results.baseline = baseline
        /\ baseline.timestamp >= results.start_time


\* C12: when _get_system_state fails, at the baseline capture or at any
\* round of the sampling loop, monitor() raises to its caller and requests
\* no further record: the failed request is the last psutil call of the
\* session and the call has ended with the exception.
C12_SourceFailureIsFatal ==
    \A i \in 1..Len(requests) :
        requests[i] = StateFailed =>
            /\ i = Len(requests)
            /\ pc = "raised"
            /\ mon_outcome = "raised"

\* A failure in the second round of the loop, after a baseline and a sample.
C12_Witness ==
    /\ Len(requests) >= 3
    /\ requests[Len(requests)] = StateFailed
    /\ results.has_baseline
    /\ Len(results.samples) >= 1
    /\ pc = "raised"


\* The session in progress ended with a _get_system_state failure.
SourceFailed ==
    /\ requests # <<>>
    /\ requests[Len(requests)] = StateFailed

\* The caller of monitor() holds what the session accumulated, to hand it
\* to generate_report.
CallerHoldsResults ==
    /\ CallerResults.start_time = results.start_time
    /\ CallerResults.samples = results.samples
    /\ CallerResults.anomalies = results.anomalies

\* C13: when _get_system_state fails in a round k > 0 of the loop, the
\* samples and findings accumulated before round k are not lost: the caller
\* of monitor() still gets them, for generate_report, together with the
\* error.
C13_PartialResultsKept ==
    (SourceFailed /\ results.samples # <<>>) =>
        /\ mon_outcome = "raised"
        /\ CallerHoldsResults

\* C14: a session cancelled at any point of the sampling loop, the sleep
\* included, exits early and its accumulated samples and findings go to
\* generate_report: a cancelled session never ends without a report.
C14_CancelledSessionReports ==
    (pc = "cancelled" /\ results.samples # <<>>) => CallerHoldsResults


\* The positions of a monitor() call that has ended.
Ended == {"returned", "raised", "cancelled"}

\* monitor() returned all the samples of the session, each one evaluated.
CompleteResults ==
    /\ Len(results.samples) = samples_count
    /\ evaluated = results.samples

Logged(entry) == \E i \in 1..Len(requests) : requests[i] = entry

InvalidConfiguration == pc # "idle" /\ results.interval[1] <= 0

\* C16: a session started with an invalid configuration fails before any
\* sampling: it acquires no record, evaluates no finding, leaves the monitor
\* as it was and returns nothing to report on.
C16_InvalidConfigurationFailsFirst ==
    InvalidConfiguration =>
        /\ pc \in {"baseline", "raised", "cancelled"}
        /\ requests = <<>>
        /\ evaluated = <<>>
        /\ results.samples = <<>>
        /\ ~results.has_baseline
        /\ baseline.timestamp < results.start_time


\* The keys "src:dst" that have a valid record in the log.
ObservedKeys ==
    { k \in { src \o <<":">> \o dst : src \in Addrs, dst \in Addrs } :
        \E src \in Addrs, dst \in Addrs :
            /\ k = src \o <<":">> \o dst
            /\ CountFor(observed, src, dst) > 0 }

\* C17: the report of generate_report has a field total_connections, the
\* number of distinct keys "src:dst" (0 for a fresh analyzer and after
\* invalid packets only), and its field connections maps every key to the
\* aggregate of that key, whose packet count is the number of valid records
\* of the key.
C17_ReportConnections ==
    (net_outcome = "ok" /\ ~dirty /\ net_report # NoReport) =>
        /\ "total_connections" \in DOMAIN net_report
        /\ net_report.total_connections = Cardinality(ObservedKeys)
        /\ DOMAIN net_report.connections = ObservedKeys
        /\ \A src \in Addrs, dst \in Addrs :
              LET k == src \o <<":">> \o dst
              IN  k \in ObservedKeys =>
                     net_report.connections[k].packets
                         = CountFor(observed, src, dst)


\* C18: _check_anomalies on a monitor that has captured no baseline does
\* not fail: the baseline-relative rules are skipped and the absolute rules
\* are still evaluated, their findings appended.
C18_NoBaselineSkipsRelativeRules ==
    (baseline = NoState /\ evaluated # <<>>) =>
        /\ mon_outcome = "checked"
        /\ results.anomalies = AbsoluteAnomalies(evaluated[1])


\* The log entries that hold valid records of the key (src, dst).
EntriesOf(src, dst) ==
    {i \in 1..Len(observed) : RecordOf(observed[i].pkt, src, dst)}

\* Clock readings at the first and at the latest valid record of a key
\* that has one.
FirstSeen(src, dst) ==
    observed[CHOOSE i \in EntriesOf(src, dst) :
                 \A j \in EntriesOf(src, dst) : i <= j].time

LastSeen(src, dst) ==
    observed[CHOOSE i \in EntriesOf(src, dst) :
                 \A j \in EntriesOf(src, dst) : i >= j].time

\* The TRAFFIC findings of a report that name the source src.
TrafficFindingsFor(fs, src) ==
    CountDescription(fs, "TRAFFIC", <<"High packet rate from">> \o src)

\* C19: a report holds a TRAFFIC/MEDIUM finding for a connection exactly
\* when the connection has more than 1000 packets and the time between its
\* first and its last packet is below 10 s: one finding for such a
\* connection and none otherwise, however long after the last packet the
\* report is generated.
C19_TrafficRule ==
    (net_outcome = "ok" /\ ~dirty /\ net_report # NoReport) =>
        \A src \in Addrs :
            TrafficFindingsFor(net_report.findings, src) =
                Cardinality({dst \in Addrs :
                    /\ CountFor(observed, src, dst) > BurstThreshold
                    /\ LastSeen(src, dst) - FirstSeen(src, dst)
                          < TrafficWindow})

\* C20: for every key the aggregate's first_seen is the timestamp of the
\* first record observed for the key, its last_seen is the timestamp of the
\* latest one, after every call, and first_seen <= last_seen.
C20_AggregateTimestamps ==
    \A src \in Addrs, dst \in Addrs :
        LET k == src \o <<":">> \o dst
        IN  k \in DOMAIN connections =>
               /\ connections[k].start_time = FirstSeen(src, dst)
               /\ "last_seen" \in DOMAIN connections[k]
               /\ connections[k].last_seen = LastSeen(src, dst)
               /\ connections[k].start_time <= connections[k].last_seen


\* C21: across observe calls, failed observe calls and report generation a
\* key once present is never removed, its packet and byte counts never
\* decrease and its protocol set never loses an element.
C21_AggregatesOnlyGrow ==
    [][\A k \in DOMAIN connections :
          /\ k \in DOMAIN connections'
          /\ connections'[k].packets >= connections[k].packets
          /\ connections'[k].bytes >= connections[k].bytes
          /\ connections[k].protocols \subseteq connections'[k].protocols]_vars

\* A key that was observed twice, with two protocols, and then reported.
C21_Witness ==
    /\ \E k \in DOMAIN connections :
          /\ connections[k].packets = 2
          /\ connections[k].protocols = {"TCP", "UDP"}
    /\ net_report # NoReport
    /\ ~dirty


\* The protocol tags of the valid records logged for the key (src, dst).
TagsOf(src, dst) == {observed[i].pkt.l4 : i \in EntriesOf(src, dst)}

\* C22: after a valid record with protocol tag p was observed for key k, p
\* is in the protocol set of aggregate k, for each of the tags TCP, UDP,
\* ICMP and OTHER: the set of an aggregate is the set of the tags of the
\* records counted for its key.
C22_ConnectionProtocols ==
    \A src \in Addrs, dst \in Addrs :
        LET k == src \o <<":">> \o dst
        IN  k \in DOMAIN connections =>
               connections[k].protocols = TagsOf(src, dst)


\* The order in which _check_anomalies evaluates its rules.
RuleOrder ==
    <<"CPU_USAGE", "MEMORY_USAGE", "DISK_SPACE", "PROCESS_COUNT",
      "NETWORK_CONNECTIONS">>

RuleRank(type) == CHOOSE i \in 1..Len(RuleOrder) : RuleOrder[i] = type

\* The round of the loop that took the sample with timestamp ts.
SampleIndex(ts) ==
    CHOOSE i \in 1..Len(results.samples) : results.samples[i].timestamp = ts

\* The findings of a sample sequence against one baseline.
RECURSIVE FindingsOf(_, _)
FindingsOf(samples, base) ==
    IF samples = <<>> THEN <<>>
    ELSE _check_anomalies(samples[1], base).findings
         \o FindingsOf(Tail(samples), base)

\* C23: the order of the findings is deterministic: within one sample they
\* come in the order CPU, memory, disk, process count, connections; the
\* findings of sample i all precede those of sample i+1; and the sequence
\* is a function of the sample sequence and the baseline alone.
C23_FindingOrder ==
    /\ \A i, j \in 1..Len(results.anomalies) :
          i < j =>
             LET a == results.anomalies[i]
                 b == results.anomalies[j]
             IN  \/ SampleIndex(a.timestamp) < SampleIndex(b.timestamp)
                 \/ /\ a.timestamp = b.timestamp
                    /\ RuleRank(a.type) <= RuleRank(b.type)
    /\ results.anomalies = FindingsOf(evaluated, baseline)

\* Two evaluated samples, the first with a finding of every rule.
C23_Witness ==
    /\ Len(evaluated) = 2
    /\ {results.anomalies[i].type : i \in 1..Len(results.anomalies)}
          = {RuleOrder[i] : i \in 1..Len(RuleOrder)}
    /\ Cardinality({results.anomalies[i].timestamp :
                        i \in 1..Len(results.anomalies)}) = 2


\* s is an initial piece of t.
IsPrefix(s, t) == Len(s) <= Len(t) /\ SubSeq(t, 1, Len(s)) = s

\* C24: findings are append-only: every step of a session leaves the
\* anomalies, the security issues and the samples it found as a prefix of
\* what it leaves behind; nothing is removed, reordered or modified.
C24_AppendOnly ==
    [][sessions' = sessions =>
          /\ IsPrefix(results.anomalies, results'.anomalies)
          /\ IsPrefix(results.security_issues, results'.security_issues)
          /\ IsPrefix(results.samples, results'.samples)]_vars

\* A returned session with two samples, findings of both and a security
\* issue.
C24_Witness ==
    /\ pc = "returned"
    /\ Len(results.samples) = 2
    /\ Len(results.anomalies) >= 2
    /\ results.anomalies[1].timestamp
          # results.anomalies[Len(results.anomalies)].timestamp
    /\ results.security_issues # <<>>


\* Every producer has returned from its call.
AllDelivered == \A t \in Producers : producers[t].pc = "done"

\* C25: when records are delivered concurrently, by two or more producers
\* whose _process_packet calls interleave, no update is lost: once all the
\* calls have returned, the packet count of each key is the number of valid
\* records delivered for it and its byte count the sum of their lengths,
\* and no key was initialised twice.
C25_NoLostUpdate ==
    AllDelivered =>
        /\ \A src \in Addrs, dst \in Addrs :
              LET k == src \o <<":">> \o dst
                  cnt == CountFor(observed, src, dst)
              IN  IF cnt = 0 THEN k \notin DOMAIN connections
                  ELSE /\ k \in DOMAIN connections
                       /\ connections[k].packets = cnt
                       /\ connections[k].bytes = BytesFor(observed, src, dst)
        /\ \A i, j \in 1..Len(heap) : heap[i].key = heap[j].key => i = j


\* A monitor() call with a valid configuration whose duration is shorter
\* than its interval, that ended by itself (no failing source, no
\* cancellation).
ZeroSampleSession ==
    /\ pc \in {"returned", "raised"}
    /\ results.interval[1] > 0
    /\ results.duration >= 0
    /\ SamplesCount(results.duration, results.interval) = 0
    /\ ~Logged(StateFailed)

\* C26: a session with floor(duration / interval) = 0 finishes normally:
\* monitor() returns results with no sample and no anomaly without raising,
\* and a report can be built from them.
C26_ZeroSampleSessionReturns ==
    ZeroSampleSession =>
        /\ pc = "returned"
        /\ results.samples = <<>>
        /\ results.anomalies = <<>>
        /\ mon_outcome # "report raised"


\* The protocols the records of the log that did not fail account for.
ProtocolsOfValidRecords ==
    UNION { ExtractProtocol({}, observed[i].pkt).protocols :
              i \in {j \in 1..Len(observed) :
                        ~InvalidRecord(observed[j].pkt)} }

\* The call folded record p in completely.
FullyFolded(p) ==
    /\ ~InvalidRecord(p)
    /\ protocols' = ExtractProtocol(protocols, p).protocols
    /\ p.ip =>
          LET k == conn_key(p)
              before == IF k \in DOMAIN connections THEN connections[k]
                        ELSE NewStats(now)
          IN  /\ k \in DOMAIN connections'
              /\ connections'[k].packets = before.packets + 1
              /\ connections'[k].bytes = before.bytes + p.len

\* C27: _process_packet is atomic with respect to failure: after any call,
\* one that fails partway included, either the record was folded in
\* completely or nothing changed; so every key in the map has a packet
\* count of at least 1 and the global protocol set holds only protocols of
\* records that did not fail.
C27_ObserveAtomic ==
    /\ [](\A k \in DOMAIN connections : connections[k].packets >= 1)
    /\ [](protocols \subseteq ProtocolsOfValidRecords)
    /\ [][\A p \in Packets :
            observed' = Append(observed, [pkt |-> p, time |-> now, n |-> 1])
               => \/ FullyFolded(p)
                  \/ /\ protocols' = protocols
                     /\ connections' = connections
                     /\ conn_order' = conn_order]_vars


\* The packet counts of the connections of a report, added up.
RECURSIVE SumPackets(_)
SumPackets(conns) ==
    IF conns = <<>> THEN 0
    ELSE conns[1].packets + SumPackets(Tail(conns))

\* C28: the total_packets of a report is consistent with the aggregates: it
\* is at least the sum of the packet counts of all connections, also when
\* packets were fed through _process_packet and when a capture ended with
\* an error.
C28_TotalPacketsCoversConnections ==
    (~dirty /\ net_report # NoReport) =>
        net_report.total_packets >= SumPackets(net_report.connections)

=============================================================================
